---- MODULE Spec2Model ----
(***************************************************************************)
(* maubot-webhook: WebhookPlugin (src/plugin.py).                          *)
(*                                                                         *)
(* A text (Python str) is a sequence of character codes (ISO-8859-1), so   *)
(* that splitting, capitalising, base64 decoding, JSON parsing and         *)
(* template lexing are computed character by character.  Literal texts are *)
(* written as tuples of codes with the text in a comment.                  *)
(***************************************************************************)
EXTENDS Integers, Sequences, FiniteSets, TLC

\* ------------------------------------------------------------------ bounds
\* Longest credential text (user:password, or bearer token) that is enumerated.
MaxCredLen == 3
\* Number of requests handled in a run (they may all be in flight together).
MaxInFlight == 2
\* Longest dotted name (json.t.u has 3 parts) of the enumerated print statements.
MaxRefDepth == 3

\* ------------------------------------------------------------------- texts
\* Python None (no text has a negative code).
None == <<-1>>

TxtBasic == <<66, 97, 115, 105, 99>>            \* "Basic"
TxtBearer == <<66, 101, 97, 114, 101, 114>>     \* "Bearer"
TxtLowerBasic == <<98, 97, 115, 105, 99>>       \* "basic"
TxtPath == <<112, 97, 116, 104>>                \* "path"
TxtQuery == <<113, 117, 101, 114, 121>>         \* "query"
TxtBody == <<98, 111, 100, 121>>                \* "body"
TxtJson == <<106, 115, 111, 110>>               \* "json"
Space == <<32>>                                 \* " "
Colon == <<58>>                                 \* ":"

\* str.upper / str.lower of one ASCII character.
Upper(c) == IF c \in 97..122 THEN c - 32 ELSE c
Lower(c) == IF c \in 65..90 THEN c + 32 ELSE c

\* str.capitalize(): first character upper-cased, the rest lower-cased.
Capitalize(s) == [i \in 1..Len(s) |-> IF i = 1 THEN Upper(s[i]) ELSE Lower(s[i])]

\* str.lower()
LowerText(s) == [i \in 1..Len(s) |-> Lower(s[i])]

\* Position of the first occurrence of the one-character text sep in s, 0 if none.
IndexOf(s, sep) ==
    IF \E i \in 1..Len(s) : s[i] = sep[1]
    THEN CHOOSE i \in 1..Len(s) : s[i] = sep[1] /\ \A j \in 1..(i - 1) : s[j] # sep[1]
    ELSE 0

\* s.split(sep, 1): one part when sep does not occur, else the text before the
\* first sep and the whole rest after it.
Split1(s, sep) ==
    LET i == IndexOf(s, sep)
    IN  IF i = 0 THEN <<s>> ELSE <<SubSeq(s, 1, i - 1), SubSeq(s, i + 1, Len(s))>>

\* (sep in s)
Contains(s, sep) == IndexOf(s, sep) # 0

\* ------------------------------------------------------------------ base64
\* Value of a base64 digit, -1 for a character outside the alphabet.
B64Val(c) ==
    IF c \in 65..90 THEN c - 65
    ELSE IF c \in 97..122 THEN c - 71
    ELSE IF c \in 48..57 THEN c + 4
    ELSE IF c = 43 THEN 62
    ELSE IF c = 47 THEN 63
    ELSE -1

\* The base64 digit of a value 0..63.
B64Chr(v) ==
    IF v < 26 THEN v + 65
    ELSE IF v < 52 THEN v + 71
    ELSE IF v < 62 THEN v - 4
    ELSE IF v = 62 THEN 43
    ELSE 47

\* base64.b64encode, used to build the credentials of Basic request headers.
RECURSIVE B64Encode(_)
B64Encode(s) ==
    IF Len(s) = 0 THEN <<>>
    ELSE LET n == Len(s)
             b1 == s[1]
             b2 == IF n >= 2 THEN s[2] ELSE 0
             b3 == IF n >= 3 THEN s[3] ELSE 0
             w  == b1 * 65536 + b2 * 256 + b3
             d1 == B64Chr(w \div 262144)
             d2 == B64Chr((w \div 4096) % 64)
             d3 == IF n >= 2 THEN B64Chr((w \div 64) % 64) ELSE 61
             d4 == IF n >= 3 THEN B64Chr(w % 64) ELSE 61
         IN  <<d1, d2, d3, d4>> \o (IF n > 3 THEN B64Encode(SubSeq(s, 4, n)) ELSE <<>>)

\* Number of trailing "=" of s.
RECURSIVE TrailingPad(_)
TrailingPad(s) ==
    IF Len(s) > 0 /\ s[Len(s)] = 61 THEN 1 + TrailingPad(SubSeq(s, 1, Len(s) - 1)) ELSE 0

\* The bytes of the quads of digits d (values 0..63), 3 per quad.
RECURSIVE B64Bytes(_)
B64Bytes(d) ==
    IF Len(d) = 0 THEN <<>>
    ELSE LET w == d[1] * 262144 + d[2] * 4096 + d[3] * 64 + d[4]
         IN  <<w \div 65536, (w \div 256) % 256, w % 256>> \o B64Bytes(SubSeq(d, 5, Len(d)))

\* base64.b64decode(s, validate=True): quads of digits of the alphabet, the last
\* quad ending in at most two "="; anything else is binascii.Error.
B64Decode(s) ==
    LET pad  == TrailingPad(s)
        body == SubSeq(s, 1, Len(s) - pad)
    IN  IF Len(s) % 4 # 0 \/ pad > 2 \/ \E i \in 1..Len(body) : B64Val(body[i]) < 0
        THEN [ok |-> FALSE, bytes |-> <<>>]
        ELSE LET digits == [i \in 1..Len(s) |-> IF i <= Len(body) THEN B64Val(body[i]) ELSE 0]
                 all    == B64Bytes(digits)
             IN  [ok |-> TRUE, bytes |-> SubSeq(all, 1, Len(all) - pad)]

\* aiohttp.BasicAuth(login, password): the named tuple (login, password, encoding).
BasicAuth(login, password) == <<login, password, "latin1">>

\* aiohttp.BasicAuth.decode(auth_header): ValueError (ok = FALSE, with its
\* message) or the BasicAuth of the decoded credentials.
BasicAuthDecode(auth_header) ==
    LET parts == Split1(auth_header, Space)
    IN  IF Len(parts) < 2
        THEN [ok |-> FALSE, err |-> "Could not parse authorization header.", auth |-> <<>>]
        ELSE IF LowerText(parts[1]) # TxtLowerBasic
        THEN [ok |-> FALSE, err |-> "Unknown authorization method", auth |-> <<>>]
        ELSE LET dec == B64Decode(parts[2])
             IN  IF ~dec.ok
                 THEN [ok |-> FALSE, err |-> "Invalid base64 encoding.", auth |-> <<>>]
                 ELSE LET cred == Split1(dec.bytes, Colon)
                      IN  IF Len(cred) < 2
                          THEN [ok |-> FALSE, err |-> "Invalid credentials.", auth |-> <<>>]
                          ELSE [ok |-> TRUE, err |-> "", auth |-> BasicAuth(cred[1], cred[2])]

\* ------------------------------------------------------------------ values
\* A Python value a template can see: a str (s), a dict with str keys (m: its
\* items in insertion order, each [k, v]) or a jinja2.Undefined (s: the name
\* that was looked up, o: what it was looked up in).
StrVal(s) == [t |-> "str", s |-> s, m |-> <<>>, o |-> ""]
DictVal(m) == [t |-> "dict", s |-> <<>>, m |-> m, o |-> ""]
UndefVal(name, owner) == [t |-> "undef", s |-> name, m |-> <<>>, o |-> owner]

\* (k in d) for the items m of a dict.
HasKey(m, k) == \E i \in 1..Len(m) : m[i].k = k

\* d[k]
GetItem(m, k) == m[CHOOSE i \in 1..Len(m) : m[i].k = k].v

\* d[k] = v: an existing key keeps its place, a new key is appended.
SetItem(m, k, v) ==
    IF HasKey(m, k)
    THEN [i \in 1..Len(m) |-> IF m[i].k = k THEN [k |-> k, v |-> v] ELSE m[i]]
    ELSE Append(m, [k |-> k, v |-> v])

\* -------------------------------------------------------------------- JSON
\* json.loads for bodies written with { } " : , and letters: a value is a
\* string or an object whose members are strings or objects.  Any other body
\* over these characters is a JSONDecodeError (a ValueError).
JsonFail == [ok |-> FALSE, val |-> StrVal(<<>>), next |-> 0]

\* The JSON string that starts at s[i].
JsonString(s, i) ==
    IF i > Len(s) \/ s[i] # 34 THEN JsonFail
    ELSE LET rest == SubSeq(s, i + 1, Len(s))
             j    == IndexOf(rest, <<34>>)
         IN  IF j = 0 THEN JsonFail
             ELSE [ok |-> TRUE, val |-> StrVal(SubSeq(rest, 1, j - 1)), next |-> i + j + 1]

RECURSIVE JsonValue(_, _), JsonMembers(_, _, _)
\* The JSON value that starts at s[i].
JsonValue(s, i) ==
    IF i > Len(s) THEN JsonFail
    ELSE IF s[i] = 34 THEN JsonString(s, i)
    ELSE IF s[i] = 123
    THEN IF i + 1 <= Len(s) /\ s[i + 1] = 125
         THEN [ok |-> TRUE, val |-> DictVal(<<>>), next |-> i + 2]
         ELSE JsonMembers(s, i + 1, <<>>)
    ELSE JsonFail

\* The members of an object from the key that starts at s[i]; acc holds the
\* members read so far (a repeated key keeps its last value).
JsonMembers(s, i, acc) ==
    LET key == JsonString(s, i)
    IN  IF ~key.ok \/ key.next > Len(s) \/ s[key.next] # 58 THEN JsonFail
        ELSE LET v == JsonValue(s, key.next + 1)
             IN  IF ~v.ok \/ v.next > Len(s) THEN JsonFail
                 ELSE LET acc2 == SetItem(acc, key.val.s, v.val)
                      IN  IF s[v.next] = 125
                          THEN [ok |-> TRUE, val |-> DictVal(acc2), next |-> v.next + 1]
                          ELSE IF s[v.next] = 44 THEN JsonMembers(s, v.next + 1, acc2)
                          ELSE JsonFail

\* json.loads(body): ok = FALSE is the ValueError.
JsonLoads(body) ==
    LET r == JsonValue(body, 1)
    IN  IF r.ok /\ r.next = Len(body) + 1 THEN [ok |-> TRUE, val |-> r.val]
        ELSE [ok |-> FALSE, val |-> StrVal(<<>>)]

\* --------------------------------------------------------------- templates
\* jinja2.Template for sources written with literal text and {{ name.name }}
\* print statements (no blocks, comments, filters or literals).

\* Position of the first two adjacent characters c at or after i, 0 if none.
FindPair(s, c, i) ==
    IF \E j \in i..(Len(s) - 1) : s[j] = c /\ s[j + 1] = c
    THEN CHOOSE j \in i..(Len(s) - 1) :
             /\ s[j] = c /\ s[j + 1] = c
             /\ \A k \in i..(j - 1) : ~(s[k] = c /\ s[k + 1] = c)
    ELSE 0

\* s without its leading and trailing spaces.
RECURSIVE Strip(_)
Strip(s) ==
    IF Len(s) > 0 /\ s[1] = 32 THEN Strip(Tail(s))
    ELSE IF Len(s) > 0 /\ s[Len(s)] = 32 THEN Strip(SubSeq(s, 1, Len(s) - 1))
    ELSE s

\* s.split(sep)
RECURSIVE SplitAll(_, _)
SplitAll(s, sep) ==
    LET p == Split1(s, sep)
    IN  IF Len(p) = 1 THEN p ELSE <<p[1]>> \o SplitAll(p[2], sep)

\* An identifier: a letter or "_", then letters, digits or "_".
IsName(s) ==
    /\ Len(s) > 0
    /\ s[1] \in (65..90) \cup (97..122) \cup {95}
    /\ \A i \in 1..Len(s) : s[i] \in (65..90) \cup (97..122) \cup (48..57) \cup {95}

TextNode(s) == [t |-> "text", s |-> s, ref |-> <<>>]
PrintNode(ref) == [t |-> "print", s |-> <<>>, ref |-> ref]
SyntaxError == [ok |-> FALSE, nodes |-> <<>>]

\* The nodes of a template source: TemplateSyntaxError (ok = FALSE) when a
\* print statement is not closed or does not hold a dotted name.
RECURSIVE Parse(_)
Parse(src) ==
    LET open == FindPair(src, 123, 1)
    IN  IF open = 0
        THEN [ok |-> TRUE, nodes |-> IF Len(src) = 0 THEN <<>> ELSE <<TextNode(src)>>]
        ELSE LET close == FindPair(src, 125, open + 2)
             IN  IF close = 0 THEN SyntaxError
                 ELSE LET ref  == SplitAll(Strip(SubSeq(src, open + 2, close - 1)), <<46>>)
                          rest == Parse(SubSeq(src, close + 2, Len(src)))
                          head == IF open = 1 THEN <<>> ELSE <<TextNode(SubSeq(src, 1, open - 1))>>
                      IN  IF (\E i \in 1..Len(ref) : ~IsName(ref[i])) \/ ~rest.ok
                          THEN SyntaxError
                          ELSE [ok |-> TRUE, nodes |-> head \o <<PrintNode(ref)>> \o rest.nodes]

\* repr() of a key or of a str
ReprStr(s) == <<39>> \o s \o <<39>>

\* str() of a value as a template prints it: a str as it is, a dict as its
\* repr, an Undefined as the empty text.
RECURSIVE ReprVal(_), ReprItems(_)
ReprVal(v) ==
    IF v.t = "str" THEN ReprStr(v.s)
    ELSE <<123>> \o ReprItems(v.m) \o <<125>>
ReprItems(m) ==
    IF Len(m) = 0 THEN <<>>
    ELSE ReprStr(m[1].k) \o <<58, 32>> \o ReprVal(m[1].v)
         \o (IF Len(m) > 1 THEN <<44, 32>> \o ReprItems(Tail(m)) ELSE <<>>)

ToText(v) ==
    IF v.t = "str" THEN v.s
    ELSE IF v.t = "dict" THEN ReprVal(v)
    ELSE <<>>

\* Environment.getattr(obj, name) with the default jinja2.Undefined: an
\* attribute of an Undefined raises UndefinedError; a key a dict does not
\* hold, or any attribute of a str, is a new Undefined.
GetAttrRaises(obj) == obj.t = "undef"
GetAttr(obj, name) ==
    IF obj.t = "dict" /\ HasKey(obj.m, name) THEN GetItem(obj.m, name)
    ELSE UndefVal(name, IF obj.t = "dict" THEN "dict object" ELSE "str object")

\* Context.resolve(name): a name the namespace does not hold is an Undefined.
Resolve(vars, name) ==
    IF HasKey(vars, name) THEN GetItem(vars, name) ELSE UndefVal(name, "")

\* The value of obj.n1.n2... : UndefinedError (ok = FALSE) names the
\* Undefined whose attribute was asked for.
RECURSIVE GetAttrs(_, _)
GetAttrs(obj, names) ==
    IF Len(names) = 0 THEN [ok |-> TRUE, val |-> obj]
    ELSE IF GetAttrRaises(obj) THEN [ok |-> FALSE, val |-> obj]
    ELSE GetAttrs(GetAttr(obj, names[1]), Tail(names))

\* Template.render(vars): the text (ok = TRUE) or the UndefinedError, with
\* the Undefined it is about (ok = FALSE).
RECURSIVE RenderNodes(_, _)
RenderNodes(nodes, vars) ==
    IF Len(nodes) = 0 THEN [ok |-> TRUE, out |-> <<>>, undef |-> UndefVal(<<>>, "")]
    ELSE LET n    == nodes[1]
             v    == IF n.t = "text" THEN [ok |-> TRUE, val |-> StrVal(n.s)]
                     ELSE GetAttrs(Resolve(vars, n.ref[1]), Tail(n.ref))
             rest == RenderNodes(Tail(nodes), vars)
         IN  IF ~v.ok THEN [ok |-> FALSE, out |-> <<>>, undef |-> v.val]
             ELSE IF ~rest.ok THEN rest
             ELSE [ok |-> TRUE, out |-> ToText(v.val) \o rest.out, undef |-> rest.undef]

\* --------------------------------------------------------------- responses
\* aiohttp.web.Response: status, text and the WWW-Authenticate header (None
\* when not set).  The text of an f-string is its literal part (msg), the
\* texts interpolated into it (args) and the message of the exception
\* interpolated into it (err).
Response(status, msg, args, err, www) ==
    [status |-> status, msg |-> msg, args |-> args, err |-> err, www |-> www]

\* Response(): 200 with an empty body.
ResponseOK == Response(200, "", <<>>, "", None)

\* ------------------------------------------------------------------ config
\* The plugin's configuration after Config.do_update has copied it: auth_type
\* and auth_token are texts or None, room and message are template sources.
ConfigOf(path, method, room, message, message_format, auth_type, auth_token, force_json, ignore_empty_messages) ==
    [path |-> path, method |-> method, room |-> room, message |-> message,
     message_format |-> message_format, auth_type |-> auth_type,
     auth_token |-> auth_token, force_json |-> force_json,
     ignore_empty_messages |-> ignore_empty_messages]

\* The configuration object before start() has loaded it.
NoConfig == ConfigOf("", "", None, None, "", None, None, FALSE, FALSE)

\* Config.do_update, the validation of the copied values: FALSE is the
\* ValueError it raises.
ConfigValid(cfg) ==
    /\ cfg.message_format \in {"markdown", "plaintext", "html"}
    /\ \/ cfg.auth_type = None
       \/ /\ Capitalize(cfg.auth_type) \in {TxtBasic, TxtBearer}
          /\ cfg.auth_token # None
          /\ (Capitalize(cfg.auth_type) = TxtBasic => Contains(cfg.auth_token, Colon))

\* --------------------------------------------------------------- the state
VARIABLES
    plugin,     \* "loaded" before start(), "running" after it, "failed" when it raised
    config,     \* self.config
    templates,  \* self.templates: key -> compiled template (or NoTemplate)
    routes,     \* self.webapp: the registered routes, in order of registration
    reqs,       \* per request: where handle_request stands, its request and locals
    sent        \* per request: the calls it has made to self.client

vars == <<plugin, config, templates, routes, reqs, sent>>

Keys == {"room", "message"}

\* A key self.templates does not hold.
NoTemplate == [set |-> FALSE, nodes |-> <<>>]

\* jinja2.Template(source) of a source that compiles.
Template(src) == [set |-> TRUE, nodes |-> Parse(src).nodes]

\* No response yet.
NoResponse == Response(0, "", <<>>, "", None)

\* handle_request not yet called.
IdleRequest ==
    [pc |-> "idle",
     req |-> [auth_header |-> None, content_type |-> "", body |-> <<>>,
              match_info |-> <<>>, query |-> <<>>],
     config_auth_type |-> None, config_auth_token |-> None,
     template_variables |-> <<>>, room |-> None, message |-> None,
     resp |-> NoResponse]

\* ---------------------------------------------------------- handle_request
\* (mutant) the 401 carries no WWW-Authenticate header.
UnauthorizedNoChallenge(config_auth_type, msg, args, err) ==
    Response(401, msg, args, err, None)

\* unauthorized(text): 401 with WWW-Authenticate set to config_auth_type as
\* it is when the response is built (after it was capitalised).
Unauthorized(config_auth_type, msg, args, err) ==
    Response(401, msg, args, err, config_auth_type)

\* (mutant) only the user is compared, not the password.
CheckBasicUserOnly(config_auth_type, config_auth_token, auth_header) ==
    LET basic_auth_header == BasicAuthDecode(auth_header)
        cred == Split1(config_auth_token, Colon)
    IN  IF ~basic_auth_header.ok
        THEN [pass |-> FALSE,
              resp |-> Response(401, "Invalid authorization header format: ", <<>>,
                                basic_auth_header.err, config_auth_type)]
        ELSE IF cred[1] # basic_auth_header.auth[1]
        THEN [pass |-> FALSE,
              resp |-> Response(401, "Invalid username or password", <<>>, "", config_auth_type)]
        ELSE [pass |-> TRUE, resp |-> NoResponse]

\* The Basic branch: the header is decoded and compared with the configured
\* user:password.
CheckBasic(config_auth_type, config_auth_token, auth_header) ==
    LET basic_auth_header == BasicAuthDecode(auth_header)
        cred == Split1(config_auth_token, Colon)
        configured == BasicAuth(cred[1], IF Len(cred) = 2 THEN cred[2] ELSE <<>>)
    IN  IF ~basic_auth_header.ok
        THEN [pass |-> FALSE,
              resp |-> Unauthorized(config_auth_type, "Invalid authorization header format: ",
                                    <<>>, basic_auth_header.err)]
        ELSE IF configured # basic_auth_header.auth
        THEN [pass |-> FALSE,
              resp |-> Unauthorized(config_auth_type, "Invalid username or password", <<>>, "")]
        ELSE [pass |-> TRUE, resp |-> NoResponse]

\* (mutant) a credential that starts with the configured token is accepted.
CheckBearerPrefix(config_auth_type, config_auth_token, auth_token) ==
    IF SubSeq(auth_token, 1, Len(config_auth_token)) # config_auth_token
    THEN [pass |-> FALSE,
          resp |-> Response(401, "Invalid authorization token", <<>>, "", config_auth_type)]
    ELSE [pass |-> TRUE, resp |-> NoResponse]

\* The Bearer branch: the credential is compared with the configured token.
CheckBearer(config_auth_type, config_auth_token, auth_token) ==
    IF auth_token # config_auth_token
    THEN [pass |-> FALSE,
          resp |-> Unauthorized(config_auth_type, "Invalid authorization token", <<>>, "")]
    ELSE [pass |-> TRUE, resp |-> NoResponse]

\* (mutant) a header is malformed unless it is exactly two tokens.
MalformedHeaderStrict(auth_header_split) ==
    Len(auth_header_split) < 2 \/ Contains(auth_header_split[2], Space)

\* The header did not split into a scheme and a credential.
MalformedHeader(auth_header_split) == Len(auth_header_split) < 2

\* (mutant) the scheme of the header is compared as it was given.
HeaderAuthTypeAsGiven(auth_header_split) == auth_header_split[1]

\* auth_type of the header: its scheme, capitalised.
HeaderAuthType(auth_header_split) == Capitalize(auth_header_split[1])

\* The authentication of handle_request: pass, or the 401 it returns.
Authenticate(cfg, auth_header) ==
    IF cfg.auth_type = None THEN [pass |-> TRUE, resp |-> NoResponse]
    ELSE LET config_auth_type == Capitalize(cfg.auth_type)
             auth_header_split == Split1(auth_header, Space)
         IN  IF auth_header = None
             THEN [pass |-> FALSE,
                   resp |-> Unauthorized(config_auth_type, "Missing authorization header", <<>>, "")]
             ELSE IF MalformedHeader(auth_header_split)
             THEN [pass |-> FALSE,
                   resp |-> Unauthorized(config_auth_type, "Invalid authorization header format",
                                         <<>>, "")]
             ELSE LET auth_type == HeaderAuthType(auth_header_split)
                      auth_token == auth_header_split[2]
                  IN  IF auth_type # config_auth_type
                      THEN [pass |-> FALSE,
                            resp |-> Unauthorized(config_auth_type,
                                                  "Unsupported authorization type: ",
                                                  <<auth_type>>, "")]
                      ELSE IF auth_type = TxtBasic
                      THEN CheckBasic(config_auth_type, cfg.auth_token, auth_header)
                      ELSE IF auth_type = TxtBearer
                      THEN CheckBearer(config_auth_type, cfg.auth_token, auth_token)
                      ELSE [pass |-> TRUE, resp |-> NoResponse]

\* template_variables as built before JSON is looked at.
TemplateVariables(req) ==
    <<[k |-> TxtPath, v |-> DictVal(req.match_info)],
      [k |-> TxtQuery, v |-> DictVal(req.query)],
      [k |-> TxtBody, v |-> StrVal(req.body)]>>

\* (mutant) force_json is not looked at.
JsonExpectedByContentType(req, cfg) == req.content_type = "application/json"

\* The condition under which the body is parsed as JSON.
JsonExpected(req, cfg) == req.content_type = "application/json" \/ cfg.force_json

\* render_template(key, variables): the rendered text, or the 500 response
\* of an UndefinedError.  A key self.templates does not hold is a KeyError,
\* which nothing catches (the server answers 500).
RenderTemplate(tmpls, key, variables) ==
    IF ~tmpls[key].set
    THEN [ok |-> FALSE, text |-> <<>>, resp |-> Response(500, "KeyError", <<>>, "", None)]
    ELSE LET r == RenderNodes(tmpls[key].nodes, variables)
         IN  IF r.ok THEN [ok |-> TRUE, text |-> r.out, resp |-> NoResponse]
             ELSE [ok |-> FALSE, text |-> <<>>,
                   resp |-> Response(500,
                                     IF key = "room" THEN "Undefined variables in room template: "
                                     ELSE "Undefined variables in message template: ",
                                     <<r.undef.s>>,
                                     IF r.undef.o = "" THEN "is undefined"
                                     ELSE "has no attribute", None)]

\* (mutant) every message is sent as markdown.
ClientCallMarkdown(message_format, room, message) ==
    [fn |-> "send_markdown", room |-> room, text |-> message, html |-> None]

\* The call to self.client that message_format selects.
ClientCall(message_format, room, message) ==
    IF message_format = "markdown"
    THEN [fn |-> "send_markdown", room |-> room, text |-> message, html |-> None]
    ELSE IF message_format = "html"
    THEN [fn |-> "send_text", room |-> room, text |-> None, html |-> message]
    ELSE [fn |-> "send_text", room |-> room, text |-> message, html |-> None]

\* (mutant) the response is given to every request that is being handled.
ReturnToAll(i, r, resp) ==
    reqs' = [j \in DOMAIN reqs |->
                IF j = i \/ reqs[j].pc \in {"text", "json", "send"}
                THEN [IdleRequest EXCEPT !.pc = "done", !.req = reqs[j].req, !.resp = resp]
                ELSE reqs[j]]

\* Request i, in state r, returns resp: its locals end with the call.
Return(i, r, resp) ==
    reqs' = [reqs EXCEPT ![i] = [IdleRequest EXCEPT !.pc = "done", !.req = r.req,
                                                    !.resp = resp]]

\* (mutant) an empty message is dropped whatever the configuration says.
IgnoreEmptyAlways(cfg, message) == message = <<>>

\* The empty message that is not to be sent.
IgnoreEmpty(cfg, message) == cfg.ignore_empty_messages /\ message = <<>>

\* (mutant) the message is rendered, and its failure returned, before the room.
RenderAndSendMessageFirst(i, variables) ==
    LET r0 == [reqs[i] EXCEPT !.template_variables = variables]
        room == RenderTemplate(templates, "room", variables)
        message == RenderTemplate(templates, "message", variables)
        r1 == [r0 EXCEPT !.message = message.text]
        r2 == [r1 EXCEPT !.room = room.text]
    IN  IF ~message.ok THEN Return(i, r0, message.resp) /\ UNCHANGED sent
        ELSE IF ~room.ok THEN Return(i, r1, room.resp) /\ UNCHANGED sent
        ELSE IF IgnoreEmpty(config, message.text)
        THEN Return(i, r2, ResponseOK) /\ UNCHANGED sent
        ELSE /\ reqs' = [reqs EXCEPT ![i] = [r2 EXCEPT !.pc = "send"]]
             /\ sent' = [sent EXCEPT ![i] =
                            Append(@, ClientCall(config.message_format, room.text, message.text))]

\* handle_request from the rendering of the room to the call of the client,
\* with template_variables complete: it returns, or suspends in the send.
RenderAndSend(i, variables) ==
    LET r0 == [reqs[i] EXCEPT !.template_variables = variables]
        room == RenderTemplate(templates, "room", variables)
        message == RenderTemplate(templates, "message", variables)
        r1 == [r0 EXCEPT !.room = room.text]
        r2 == [r1 EXCEPT !.message = message.text]
    IN  IF ~room.ok THEN Return(i, r0, room.resp) /\ UNCHANGED sent
        ELSE IF ~message.ok THEN Return(i, r1, message.resp) /\ UNCHANGED sent
        ELSE IF IgnoreEmpty(config, message.text)
        THEN Return(i, r2, ResponseOK) /\ UNCHANGED sent
        ELSE /\ reqs' = [reqs EXCEPT ![i] = [r2 EXCEPT !.pc = "send"]]
             /\ sent' = [sent EXCEPT ![i] =
                            Append(@, ClientCall(config.message_format, room.text, message.text))]

\* A request arrives at a registered route: handle_request runs up to its
\* first suspension (await req.text()), that is through authentication.
MatchInfos(path) ==
    IF path = "/hook/{r}" THEN {<<[k |-> <<114>>, v |-> StrVal(<<33, 114>>)]>>}  \* r = "!r"
    ELSE {<<>>}

Receive(I, R) ==
    /\ plugin = "running"
    /\ \E i \in I :
         /\ reqs[i].pc = "idle"
         /\ \E q \in R, n \in 1..Len(routes) :
              \E mi \in MatchInfos(routes[n].path) :
                LET req == [auth_header |-> q.auth_header, content_type |-> q.content_type,
                            body |-> q.body, match_info |-> mi, query |-> q.query]
                    auth == Authenticate(config, req.auth_header)
                    r == [reqs[i] EXCEPT !.req = req,
                                         !.config_auth_type =
                                             IF config.auth_type = None THEN None
                                             ELSE Capitalize(config.auth_type),
                                         !.config_auth_token =
                                             IF config.auth_type = None \/ req.auth_header = None
                                                \/ ~Contains(req.auth_header, Space)
                                             THEN None ELSE config.auth_token]
                IN  IF auth.pass
                    THEN reqs' = [reqs EXCEPT ![i] = [r EXCEPT !.pc = "text"]]
                    ELSE Return(i, r, auth.resp)
    /\ UNCHANGED <<plugin, config, templates, routes, sent>>

\* await req.text() returns: template_variables is built and, when JSON is
\* expected, the handler suspends in await req.json(); else it goes on to render.
ReadText(i) ==
    /\ reqs[i].pc = "text"
    /\ IF JsonExpected(reqs[i].req, config)
       THEN /\ reqs' = [reqs EXCEPT ![i] = [@ EXCEPT !.pc = "json",
                            !.template_variables = TemplateVariables(reqs[i].req)]]
            /\ UNCHANGED sent
       ELSE RenderAndSend(i, TemplateVariables(reqs[i].req))
    /\ UNCHANGED <<plugin, config, templates, routes>>

\* (mutant) the ValueError of req.json() is swallowed and rendering goes on.
ParseJsonSwallow(i) ==
    /\ reqs[i].pc = "json"
    /\ LET json == JsonLoads(reqs[i].req.body)
       IN  RenderAndSend(i, IF json.ok
                            THEN SetItem(reqs[i].template_variables, TxtJson, json.val)
                            ELSE reqs[i].template_variables)
    /\ UNCHANGED <<plugin, config, templates, routes>>

\* await req.json() returns or raises: 400, or json joins template_variables
\* and the handler goes on to render.
ParseJson(i) ==
    /\ reqs[i].pc = "json"
    /\ LET json == JsonLoads(reqs[i].req.body)
       IN  IF ~json.ok
           THEN /\ Return(i, reqs[i], Response(400, "Failed to parse JSON: ", <<>>,
                                               "JSONDecodeError", None))
                /\ UNCHANGED sent
           ELSE RenderAndSend(i, SetItem(reqs[i].template_variables, TxtJson, json.val))
    /\ UNCHANGED <<plugin, config, templates, routes>>

\* (mutant) a send that raised is tried again.
DeliverRetry(i, raised) ==
    /\ reqs[i].pc = "send"
    /\ IF raised
       THEN /\ sent' = [sent EXCEPT ![i] = Append(@, @[1])]
            /\ UNCHANGED reqs
       ELSE Return(i, reqs[i], ResponseOK) /\ UNCHANGED sent
    /\ UNCHANGED <<plugin, config, templates, routes>>

\* The send returns (raised = FALSE) or raises: 200 with an empty body, or 500.
Deliver(i, raised) ==
    /\ reqs[i].pc = "send"
    /\ IF raised
       THEN Return(i, reqs[i],
                   Response(500, "Failed to send message '{message}' to room {room}: ",
                            <<reqs[i].message, reqs[i].room>>, "Exception", None))
       ELSE Return(i, reqs[i], ResponseOK)
    /\ UNCHANGED <<plugin, config, templates, routes, sent>>

\* ----------------------------------------------------- start and hot reload
\* (mutant) the slot is assigned whether or not the source compiled.
LoadTemplateUnchecked(tmpls, key, src) ==
    [ok |-> Parse(src).ok, templates |-> [tmpls EXCEPT ![key] = Template(src)]]

\* load_template(key) with the source src: the slot is assigned when the
\* source compiles; ok = FALSE is the ValueError raised for a syntax error.
LoadTemplate(tmpls, key, src) ==
    IF Parse(src).ok
    THEN [ok |-> TRUE, templates |-> [tmpls EXCEPT ![key] = Template(src)]]
    ELSE [ok |-> FALSE, templates |-> tmpls]

\* register_webhook(): webapp.add_route(method, path, handle_request)
RegisterWebhook(rts, cfg) == Append(rts, [method |-> cfg.method, path |-> cfg.path])

\* (mutant) the route is registered whether or not the templates compiled.
StartRegisterAnyway(C) ==
    \E cfg \in C :
      LET empty == [k \in Keys |-> NoTemplate]
          room == LoadTemplate(empty, "room", cfg.room)
          message == LoadTemplate(room.templates, "message", cfg.message)
      IN  /\ plugin = "loaded"
          /\ config' = cfg
          /\ IF ~ConfigValid(cfg)
             THEN plugin' = "failed" /\ templates' = empty /\ UNCHANGED routes
             ELSE /\ plugin' = "running"
                  /\ templates' = message.templates
                  /\ routes' = RegisterWebhook(routes, cfg)
          /\ UNCHANGED <<reqs, sent>>

\* start(): the configuration is loaded and validated, both templates are
\* compiled and the route is registered; an exception on the way leaves the
\* plugin not started, with what was assigned before it.
Start(C) ==
    \E cfg \in C :
      LET empty == [k \in Keys |-> NoTemplate]
          room == LoadTemplate(empty, "room", cfg.room)
          message == LoadTemplate(room.templates, "message", cfg.message)
      IN  /\ plugin = "loaded"
          /\ config' = cfg
          /\ IF ~ConfigValid(cfg)
             THEN plugin' = "failed" /\ templates' = empty /\ UNCHANGED routes
             ELSE IF ~room.ok
             THEN plugin' = "failed" /\ templates' = room.templates /\ UNCHANGED routes
             ELSE IF ~message.ok
             THEN plugin' = "failed" /\ templates' = message.templates /\ UNCHANGED routes
             ELSE /\ plugin' = "running"
                  /\ templates' = message.templates
                  /\ routes' = RegisterWebhook(routes, cfg)
          /\ UNCHANGED <<reqs, sent>>

\* (mutant) webapp.clear() leaves the routes in place.
ClearNothing(rts) == rts

\* webapp.clear(): no route is left.
Clear(rts) == <<>>

\* (mutant) the handler is registered again at every update.
OnExternalConfigUpdateRegisterAgain(C) ==
    \E cfg \in C :
      LET old == config
          room == IF old.room # cfg.room THEN LoadTemplate(templates, "room", cfg.room)
                  ELSE [ok |-> TRUE, templates |-> templates]
          message == IF old.message # cfg.message
                     THEN LoadTemplate(room.templates, "message", cfg.message)
                     ELSE [ok |-> TRUE, templates |-> room.templates]
      IN  /\ plugin = "running"
          /\ ConfigValid(cfg)
          /\ config' = cfg
          /\ routes' = IF old.path # cfg.path \/ old.method # cfg.method
                       THEN RegisterWebhook(Clear(routes), cfg)
                       ELSE RegisterWebhook(routes, cfg)
          /\ templates' = IF ~room.ok THEN room.templates ELSE message.templates
          /\ UNCHANGED <<plugin, reqs, sent>>

\* on_external_config_update() with a new valid configuration cfg: the route
\* is re-registered when path or method changed, then the room template and
\* then the message template are reloaded when their source changed; the
\* ValueError of a reload ends the update there.
OnExternalConfigUpdate(C) ==
    \E cfg \in C :
      LET old == config
          room == IF old.room # cfg.room THEN LoadTemplate(templates, "room", cfg.room)
                  ELSE [ok |-> TRUE, templates |-> templates]
          message == IF old.message # cfg.message
                     THEN LoadTemplate(room.templates, "message", cfg.message)
                     ELSE [ok |-> TRUE, templates |-> room.templates]
      IN  /\ plugin = "running"
          /\ ConfigValid(cfg)
          /\ config' = cfg
          /\ routes' = IF old.path # cfg.path \/ old.method # cfg.method
                       THEN RegisterWebhook(Clear(routes), cfg)
                       ELSE routes
          /\ templates' = IF ~room.ok THEN room.templates ELSE message.templates
          /\ UNCHANGED <<plugin, reqs, sent>>

\* ------------------------------------------------------------------ inputs
\* All texts over the characters of alphabet, up to length n.
RECURSIVE TextsUpTo(_, _)
TextsUpTo(alphabet, n) ==
    IF n = 0 THEN {<<>>}
    ELSE LET shorter == TextsUpTo(alphabet, n - 1)
         IN  shorter \cup {Append(t, c) : t \in shorter, c \in alphabet}

\* Credentials: user:password pairs and tokens over "a", "b" and ":", and a
\* token with a space in it ("a b").
Creds == TextsUpTo({97, 98, 58}, MaxCredLen)
TokenWithSpace == <<97, 32, 98>>

\* Template sources.
SrcRoomLiteral == <<33, 114>>                                   \* "!r"
SrcPathR == <<123, 123, 112, 97, 116, 104, 46, 114, 125, 125>>  \* "{{path.r}}"
SrcBody == <<123, 123, 98, 111, 100, 121, 125, 125>>            \* "{{body}}"
SrcJsonT == <<123, 123, 106, 115, 111, 110, 46, 116, 125, 125>> \* "{{json.t}}"
SrcUnclosed == <<123, 123, 106, 115, 111, 110>>                 \* "{{json"
SrcEmptyPrint == <<123, 123, 125, 125>>                         \* "{{}}"

\* Request bodies.
BodyObject == <<123, 34, 116, 34, 58, 34, 104, 34, 125>>        \* {"t":"h"}
BodyEmptyText == <<123, 34, 116, 34, 58, 34, 34, 125>>          \* {"t":""}
BodyEmptyObject == <<123, 125>>                                 \* {}
BodyNested == <<123, 34, 116, 34, 58, 123, 34, 117, 34, 58, 34, 104, 34, 125, 125>>
                                                                \* {"t":{"u":"h"}}
BodyString == <<34, 104, 34>>                                   \* "h"
BodyCut == <<123, 34, 116, 34>>                                 \* {"t"
BodyPlain == <<104>>                                            \* h

RequestOf(auth_header, content_type, body, query) ==
    [auth_header |-> auth_header, content_type |-> content_type, body |-> body,
     query |-> query]

\* ---- the authentication scenario: every configured credential against
\* ---- every header, one request, fixed templates.
AuthSchemes ==
    {TxtBasic, <<98, 65, 83, 73, 67>>, TxtBearer, <<66, 69, 65, 82, 69, 82>>,
     <<68, 105, 103, 101, 115, 116>>}          \* Basic bASIC Bearer BEARER Digest
AuthHeaderCreds == Creds \cup {B64Encode(c) : c \in Creds} \cup {TokenWithSpace}
AuthHeaders ==
    {None, TxtBasic, TxtBearer, <<97>>}
        \cup {sch \o Space \o c : sch \in AuthSchemes, c \in AuthHeaderCreds}
AuthRequests == {RequestOf(h, "text/plain", BodyPlain, <<>>) : h \in AuthHeaders}
AuthSettings ==
    {<<None, None>>}
        \cup {<<ty, tok>> : ty \in {TxtBasic, TxtLowerBasic}, tok \in {c \in Creds : Contains(c, Colon)}}
        \cup {<<ty, tok>> : ty \in {TxtBearer, <<98, 101, 97, 114, 101, 114>>},
                            tok \in Creds \cup {TokenWithSpace}}
AuthConfigs ==
    {ConfigOf("/send", "POST", SrcRoomLiteral, SrcBody, "plaintext", a[1], a[2], FALSE, FALSE)
        : a \in AuthSettings}

\* ---- the rendering scenario: every print statement against every body,
\* ---- one request, no authentication.
TxtT == <<116>>     \* "t"
TxtU == <<117>>     \* "u"
TxtR == <<114>>     \* "r"
TxtQ == <<113>>     \* "q"

\* Dotted names: a top-level name, then attributes, MaxRefDepth parts at most.
RECURSIVE RefsUpTo(_)
RefsUpTo(n) ==
    IF n = 1 THEN {<<top>> : top \in {TxtPath, TxtQuery, TxtBody, TxtJson}}
    ELSE LET shorter == RefsUpTo(n - 1)
         IN  shorter \cup {Append(ref, a) : ref \in shorter, a \in {TxtT, TxtU, TxtR}}

\* ".".join(ref)
RECURSIVE Dotted(_)
Dotted(ref) == IF Len(ref) = 1 THEN ref[1] ELSE ref[1] \o <<46>> \o Dotted(Tail(ref))

\* "{{" + ".".join(ref) + "}}"
SrcPrint(ref) == <<123, 123>> \o Dotted(ref) \o <<125, 125>>

RenderMessages ==
    {SrcPrint(ref) : ref \in RefsUpTo(MaxRefDepth)}
        \cup {<<>>, BodyPlain, <<60, 98, 62>> \o SrcBody}        \* "", "h", "<b>{{body}}"
RenderRooms == {SrcRoomLiteral, SrcPathR, SrcPrint(<<TxtJson, TxtR, TxtT>>)}
RenderConfigs ==
    {ConfigOf("/hook/{r}", "POST", room, message, fmt, None, None, fj, ie)
        : room \in RenderRooms, message \in RenderMessages,
          fmt \in {"markdown", "html", "plaintext"}, fj \in BOOLEAN, ie \in BOOLEAN}
RenderBodies ==
    {BodyObject, BodyEmptyText, BodyEmptyObject, BodyNested, BodyString, BodyCut, <<>>}
RenderRequests ==
    {RequestOf(None, ct, body, query)
        : ct \in {"application/json", "text/plain"}, body \in RenderBodies,
          query \in {<<>>, <<[k |-> TxtQ, v |-> StrVal(BodyPlain)]>>}}

\* ---- the reload scenario: one request while the configuration is reloaded
\* ---- with every combination of route, templates and settings.
TxtA == <<97>>      \* "a"
HdrBearerA == TxtBearer \o Space \o TxtA                         \* "Bearer a"
ReloadRoutes == {<<"POST", "/send">>, <<"POST", "/hook/{r}">>, <<"PUT", "/send">>}
ReloadRooms == {SrcRoomLiteral, SrcPathR, SrcUnclosed}
ReloadMessages == {SrcBody, SrcJsonT, SrcEmptyPrint}
\* (a configuration whose room source is broken is the one that asks for html,
\* so that a call shows under which room source it was rendered)
ReloadConfigs ==
    {ConfigOf(rt[2], rt[1], room, message, IF room = SrcUnclosed THEN "html" ELSE "markdown",
              None, None, FALSE, TRUE)
        : rt \in ReloadRoutes, room \in ReloadRooms, message \in ReloadMessages}
ReloadRequests ==
    {RequestOf(None, ct, body, <<>>)
        : ct \in {"application/json", "text/plain"}, body \in {BodyEmptyText, BodyCut}}

\* ---- the system scenario: requests in flight together, and reloads among
\* ---- a few configurations.
SystemConfigs ==
    {ConfigOf("/send", "POST", SrcRoomLiteral, SrcBody, "markdown", None, None, FALSE, FALSE),
     ConfigOf("/send", "POST", SrcRoomLiteral, SrcJsonT, "markdown", None, None, FALSE, FALSE),
     ConfigOf("/hook/{r}", "POST", SrcPathR, SrcJsonT, "html", TxtBearer, TxtA, TRUE, TRUE),
     ConfigOf("/hook/{r}", "POST", SrcUnclosed, SrcJsonT, "html", TxtBearer, TxtA, TRUE, TRUE)}
SystemRequests ==
    {RequestOf(None, "text/plain", BodyCut, <<>>),
     RequestOf(HdrBearerA, "application/json", BodyEmptyText, <<>>)}

\* ---- the start scenario: configurations the validation admits and
\* ---- configurations it refuses, then one request.
TxtDigest == <<68, 105, 103, 101, 115, 116>>                    \* "Digest"
StartConfigs ==
    {ConfigOf("/send", "POST", room, message, fmt, ty, tok, FALSE, FALSE)
        : room \in {SrcRoomLiteral, SrcUnclosed}, message \in {SrcBody, SrcEmptyPrint},
          fmt \in {"markdown", "plaintext", "html", "text"},
          ty \in {None, TxtBasic, TxtLowerBasic, TxtBearer, TxtDigest},
          tok \in {None} \cup Creds}
StartRequests ==
    {RequestOf(h, "text/plain", BodyPlain, <<>>) : h \in {None, TxtBearer \o Space, HdrBearerA}}

\* ------------------------------------------------------------------- specs
Slots == 1..MaxInFlight

Init ==
    /\ plugin = "loaded"
    /\ config = NoConfig
    /\ templates = [k \in Keys |-> NoTemplate]
    /\ routes = <<>>
    /\ reqs = [i \in Slots |-> IdleRequest]
    /\ sent = [i \in Slots |-> <<>>]

\* Authentication: one request against a configuration that does not change.
NextAuth ==
    \/ Start(AuthConfigs)
    \/ Receive({1}, AuthRequests)
    \/ ReadText(1)
    \/ \E raised \in BOOLEAN : Deliver(1, raised)

SpecAuth == Init /\ [][NextAuth]_vars

\* Rendering: one request against a configuration that does not change.
NextRender ==
    \/ Start(RenderConfigs)
    \/ Receive({1}, RenderRequests)
    \/ ReadText(1)
    \/ ParseJson(1)
    \/ \E raised \in BOOLEAN : Deliver(1, raised)

SpecRender == Init /\ [][NextRender]_vars

\* Reload: one request, handled while the configuration is reloaded.
NextReload ==
    \/ Start(ReloadConfigs)
    \/ OnExternalConfigUpdate(ReloadConfigs)
    \/ Receive({1}, ReloadRequests)
    \/ ReadText(1)
    \/ ParseJson(1)
    \/ \E raised \in BOOLEAN : Deliver(1, raised)

SpecReload == Init /\ [][NextReload]_vars

\* Reload with the route kept: every configuration has the same path and method.
SameRouteConfigs == {cfg \in ReloadConfigs : cfg.path = "/send" /\ cfg.method = "POST"}

NextSameRoute ==
    \/ Start(SameRouteConfigs)
    \/ OnExternalConfigUpdate(SameRouteConfigs)
    \/ Receive({1}, ReloadRequests)
    \/ ReadText(1)
    \/ ParseJson(1)
    \/ \E raised \in BOOLEAN : Deliver(1, raised)

SpecSameRoute == Init /\ [][NextSameRoute]_vars

\* Start: any configuration, valid or not, and then one request.
NextStart ==
    \/ Start(StartConfigs)
    \/ Receive({1}, StartRequests)
    \/ ReadText(1)
    \/ \E raised \in BOOLEAN : Deliver(1, raised)

SpecStart == Init /\ [][NextStart]_vars

\* The slot of the next request: the lowest one not yet used.
FreeSlots == {i \in Slots : reqs[i].pc = "idle" /\ \A j \in 1..(i - 1) : reqs[j].pc # "idle"}

\* The system: requests are handled concurrently with each other and with
\* reloads of the configuration.
Next ==
    \/ Start(SystemConfigs)
    \/ OnExternalConfigUpdate(SystemConfigs)
    \/ Receive(FreeSlots, SystemRequests)
    \/ \E i \in Slots : ReadText(i)
    \/ \E i \in Slots : ParseJson(i)
    \/ \E i \in Slots, raised \in BOOLEAN : Deliver(i, raised)

Spec == Init /\ [][Next]_vars

\* ------------------------------------------------------------------ claims
\* What the claims say of a request, stated on the request and the
\* configuration rather than on where the handler stands.

\* The header h carries the credentials the settings ask for: it has a scheme
\* and a credential separated by a space, the scheme is the configured type
\* up to letter case, and the credential is the configured token (Bearer) or
\* decodes to the configured user and password (Basic).
Accepted(auth_type, auth_token, h) ==
    /\ h # None
    /\ Contains(h, Space)
    /\ LET scheme == Split1(h, Space)[1]
           cred == Split1(h, Space)[2]
           dec == B64Decode(cred)
       IN  /\ Capitalize(scheme) = Capitalize(auth_type)
           /\ Capitalize(auth_type) = TxtBearer => cred = auth_token
           /\ Capitalize(auth_type) = TxtBasic =>
                 /\ dec.ok
                 /\ Contains(dec.bytes, Colon)
                 /\ Split1(dec.bytes, Colon) = Split1(auth_token, Colon)

\* The request passes authentication under cfg.
AuthOK(cfg, h) == cfg.auth_type = None \/ Accepted(cfg.auth_type, cfg.auth_token, h)

\* Request i returns in this step with the given status and has made no call.
ReturnsWithout(i, status) ==
    /\ reqs'[i].pc = "done"
    /\ reqs'[i].resp.status = status
    /\ sent'[i] = <<>>

\* What the step that renders may do with the namespace v: a 500 and no call
\* when a template fails, and a call only with both texts rendered.
RenderStage(i, v) ==
    IF /\ RenderNodes(templates["room"].nodes, v).ok
       /\ RenderNodes(templates["message"].nodes, v).ok
    THEN /\ reqs'[i].pc \in {"send", "done"}
         /\ reqs'[i].pc = "done" => /\ reqs'[i].resp.status = 200
                                     /\ sent'[i] = <<>>
         /\ reqs'[i].pc = "send" => Len(sent'[i]) = 1
    ELSE ReturnsWithout(i, 500)

\* The stages of one request, step by step.
PipelineStep(i) ==
    /\ (reqs[i].pc = "idle" /\ reqs'[i].pc # "idle") =>
          IF AuthOK(config, reqs'[i].req.auth_header)
          THEN reqs'[i].pc = "text" /\ sent'[i] = <<>>
          ELSE ReturnsWithout(i, 401)
    /\ (reqs[i].pc = "text" /\ reqs'[i].pc # "text") =>
          IF JsonExpected(reqs[i].req, config)
          THEN reqs'[i].pc = "json" /\ sent'[i] = <<>>
          ELSE RenderStage(i, TemplateVariables(reqs[i].req))
    /\ (reqs[i].pc = "json" /\ reqs'[i].pc # "json") =>
          IF ~JsonLoads(reqs[i].req.body).ok
          THEN ReturnsWithout(i, 400)
          ELSE RenderStage(i, SetItem(TemplateVariables(reqs[i].req), TxtJson,
                                      JsonLoads(reqs[i].req.body).val))
    /\ sent'[i] # sent[i] => reqs[i].pc \in {"text", "json"} /\ reqs'[i].pc = "send"

\* C1: the chat client is called only after the request has passed
\* authentication, JSON parsing (when JSON is expected) and the rendering of
\* room and message; the first failing stage decides the response (401, then
\* 400, then 500) and a request that failed makes no call.
C1_Pipeline == [][\A i \in Slots : PipelineStep(i)]_vars

\* A request that fails authentication and whose body is also malformed JSON
\* that the configuration expects has been answered 401.
C1_Witness ==
    \E i \in Slots :
        /\ reqs[i].pc = "done"
        /\ reqs[i].resp.status = 401
        /\ JsonExpected(reqs[i].req, config)
        /\ ~JsonLoads(reqs[i].req.body).ok
        /\ sent[i] = <<>>

\* The namespace request i renders with in the step it leaves "text" or "json".
NamespaceOf(i) ==
    IF reqs[i].pc = "json"
    THEN SetItem(TemplateVariables(reqs[i].req), TxtJson, JsonLoads(reqs[i].req.body).val)
    ELSE TemplateVariables(reqs[i].req)

\* The message a call carries.
CallMessage(call) == IF call.html # None THEN call.html ELSE call.text

\* C2: a reload that supplies a broken room or message source leaves the
\* compiled template of that slot as it was; a slot only ever changes to the
\* compilation of a source that compiled; and a request renders each field
\* with the template its slot holds, that is the last one that compiled.
C2_ReloadKeepsTemplate ==
    [][/\ \A key \in Keys :
            /\ (plugin = "running" /\ ~Parse(config'[key]).ok) =>
                   templates'[key] = templates[key]
            /\ templates'[key] # templates[key] =>
                   Parse(config'[key]).ok /\ templates'[key] = Template(config'[key])
       /\ \A i \in Slots :
            sent'[i] # sent[i] =>
                /\ sent'[i][1].room = RenderNodes(templates["room"].nodes, NamespaceOf(i)).out
                /\ CallMessage(sent'[i][1])
                       = RenderNodes(templates["message"].nodes, NamespaceOf(i)).out]_vars

\* A request was rendered and sent while the configured room source was the
\* broken one: its room came out of the template compiled before.
C2_Witness ==
    \E i \in Slots :
        /\ sent[i] # <<>>
        /\ sent[i][1].html # None
        /\ sent[i][1].room = <<33, 114>>
        /\ templates["room"].set

\* The request of slot i has been through authentication.
Authenticated(i) == reqs[i].pc # "idle"

\* The request of slot i was rejected with the 401 of the given text.
Rejected(i, msg) ==
    /\ reqs[i].pc = "done"
    /\ reqs[i].resp.status = 401
    /\ reqs[i].resp.msg = msg

\* The request of slot i passed authentication.
Passed(i) == reqs[i].pc # "idle" /\ reqs[i].resp.status # 401

\* C3: a 401 is produced only when an auth type is configured (without one
\* every request passes); every 401 carries WWW-Authenticate with the
\* configured scheme name (Basic or Bearer, however the configuration spells
\* its letter case); a request without Authorization header is answered 401
\* "Missing authorization header".
C3_Challenge ==
    \A i \in Slots :
        Authenticated(i) =>
            /\ config.auth_type = None => Passed(i)
            /\ reqs[i].resp.status = 401 =>
                   /\ config.auth_type # None
                   /\ reqs[i].resp.www \in {TxtBasic, TxtBearer}
                   /\ LowerText(reqs[i].resp.www) = LowerText(config.auth_type)
            /\ (config.auth_type # None /\ reqs[i].req.auth_header = None) =>
                   Rejected(i, "Missing authorization header")

\* A request without Authorization header was answered 401 with the challenge
\* Bearer, under a configuration that spells the type "bearer".
C3_Witness ==
    \E i \in Slots :
        /\ config.auth_type = <<98, 101, 97, 114, 101, 114>>
        /\ reqs[i].req.auth_header = None
        /\ Rejected(i, "Missing authorization header")
        /\ reqs[i].resp.www = TxtBearer

\* The scheme and the credential of a header that has a space.
SchemeOf(h) == Split1(h, Space)[1]
CredentialOf(h) == Split1(h, Space)[2]

\* One text is the other with one character replaced, removed or added.
OneCharApart(a, b) ==
    \/ /\ Len(a) = Len(b)
       /\ Cardinality({k \in 1..Len(a) : a[k] # b[k]}) = 1
    \/ /\ Len(a) = Len(b) + 1
       /\ \E k \in 1..Len(a) : SubSeq(a, 1, k - 1) \o SubSeq(a, k + 1, Len(a)) = b
    \/ /\ Len(b) = Len(a) + 1
       /\ \E k \in 1..Len(b) : SubSeq(b, 1, k - 1) \o SubSeq(b, k + 1, Len(b)) = a

\* The request of slot i carries a Basic header that decodes to a user and a
\* password, under a Basic configuration.
BasicCompared(i) ==
    /\ Authenticated(i)
    /\ config.auth_type # None
    /\ LowerText(config.auth_type) = TxtLowerBasic
    /\ reqs[i].req.auth_header # None
    /\ Contains(reqs[i].req.auth_header, Space)
    /\ LowerText(SchemeOf(reqs[i].req.auth_header)) = TxtLowerBasic
    /\ B64Decode(CredentialOf(reqs[i].req.auth_header)).ok
    /\ Contains(B64Decode(CredentialOf(reqs[i].req.auth_header)).bytes, Colon)

DecodedUser(i) == Split1(B64Decode(CredentialOf(reqs[i].req.auth_header)).bytes, Colon)[1]
DecodedPassword(i) == Split1(B64Decode(CredentialOf(reqs[i].req.auth_header)).bytes, Colon)[2]
ConfiguredUser == Split1(config.auth_token, Colon)[1]
ConfiguredPassword == Split1(config.auth_token, Colon)[2]

\* C4: with Basic, a request passes if and only if the decoded user and the
\* decoded password both equal the configured ones; any other pair, a pair one
\* character away in the user or in the password included, is answered 401
\* "Invalid username or password".
C4_Basic ==
    \A i \in Slots :
        BasicCompared(i) =>
            /\ Passed(i) <=> /\ DecodedUser(i) = ConfiguredUser
                             /\ DecodedPassword(i) = ConfiguredPassword
            /\ ~Passed(i) => Rejected(i, "Invalid username or password")
            /\ (\/ OneCharApart(DecodedUser(i), ConfiguredUser)
                \/ OneCharApart(DecodedPassword(i), ConfiguredPassword)) =>
                   Rejected(i, "Invalid username or password")

\* The user is right and the password is one character away: rejected.
C4_Witness ==
    \E i \in Slots :
        /\ BasicCompared(i)
        /\ DecodedUser(i) = ConfiguredUser
        /\ Len(DecodedPassword(i)) = Len(ConfiguredPassword)
        /\ OneCharApart(DecodedPassword(i), ConfiguredPassword)
        /\ Rejected(i, "Invalid username or password")

\* The request of slot i carries a Bearer header with a credential, under a
\* Bearer configuration.
BearerCompared(i) ==
    /\ Authenticated(i)
    /\ config.auth_type # None
    /\ LowerText(config.auth_type) = LowerText(TxtBearer)
    /\ reqs[i].req.auth_header # None
    /\ Contains(reqs[i].req.auth_header, Space)
    /\ LowerText(SchemeOf(reqs[i].req.auth_header)) = LowerText(TxtBearer)

\* C5: with Bearer, a request passes if and only if the credential of the
\* header equals the configured token; any other credential is answered 401
\* "Invalid authorization token".
C5_Bearer ==
    \A i \in Slots :
        BearerCompared(i) =>
            /\ Passed(i) <=> CredentialOf(reqs[i].req.auth_header) = config.auth_token
            /\ ~Passed(i) => Rejected(i, "Invalid authorization token")

\* A credential that only starts with the configured token was rejected.
C5_Witness ==
    \E i \in Slots :
        /\ BearerCompared(i)
        /\ Len(config.auth_token) > 0
        /\ Len(CredentialOf(reqs[i].req.auth_header)) > Len(config.auth_token)
        /\ SubSeq(CredentialOf(reqs[i].req.auth_header), 1, Len(config.auth_token))
               = config.auth_token
        /\ Rejected(i, "Invalid authorization token")

\* The tokens of h separated by runs of spaces (h.split()).
RECURSIVE Tokens(_)
Tokens(h) ==
    LET t == Strip(h)
        p == Split1(t, Space)
    IN  IF Len(t) = 0 THEN <<>>
        ELSE IF Len(p) = 1 THEN <<t>>
        ELSE <<p[1]>> \o Tokens(p[2])

\* The request of slot i carries an Authorization header under a
\* configuration that asks for authentication.
HeaderChecked(i) ==
    /\ Authenticated(i)
    /\ config.auth_type # None
    /\ reqs[i].req.auth_header # None

\* C6 as stated: every header that is not exactly two tokens (a single token,
\* or more than two) is answered 401 "Invalid authorization header format"
\* (the text alone, or the text followed by the detail of the Basic decoder).
C6_ExactlyTwoTokens ==
    \A i \in Slots :
        (HeaderChecked(i) /\ Len(Tokens(reqs[i].req.auth_header)) # 2) =>
            \/ Rejected(i, "Invalid authorization header format")
            \/ Rejected(i, "Invalid authorization header format: ")

\* C6 (amended): the header is split at its first space only; it is answered
\* 401 "Invalid authorization header format" if and only if it has no space,
\* and then no credential is compared; with a space, everything after the
\* first space is the credential (further spaces included, possibly empty)
\* and the header goes on to the scheme and credential checks.
C6_SplitAtFirstSpace ==
    \A i \in Slots :
        HeaderChecked(i) =>
            /\ Rejected(i, "Invalid authorization header format")
                   <=> ~Contains(reqs[i].req.auth_header, Space)
            /\ (BearerCompared(i) /\ CredentialOf(reqs[i].req.auth_header) = config.auth_token)
                   => Passed(i)

\* A header of three tokens ("Bearer a b") passed authentication.
C6_Witness ==
    \E i \in Slots :
        /\ HeaderChecked(i)
        /\ Len(Tokens(reqs[i].req.auth_header)) = 3
        /\ Passed(i)

\* C7: the scheme of the header is compared with the configured type without
\* regard to letter case: with the same letters the header goes on to the
\* credential check, with any other scheme it is answered 401 "Unsupported
\* authorization type: " followed by the given scheme in title case, whatever
\* its credential.
C7_Scheme ==
    \A i \in Slots :
        (HeaderChecked(i) /\ Contains(reqs[i].req.auth_header, Space)) =>
            IF LowerText(SchemeOf(reqs[i].req.auth_header)) = LowerText(config.auth_type)
            THEN \/ Passed(i)
                 \/ Rejected(i, "Invalid username or password")
                 \/ Rejected(i, "Invalid authorization token")
                 \/ Rejected(i, "Invalid authorization header format: ")
            ELSE /\ Rejected(i, "Unsupported authorization type: ")
                 /\ reqs[i].resp.args = <<Capitalize(SchemeOf(reqs[i].req.auth_header))>>

\* A header whose scheme is spelled "BEARER" passed under the type "Bearer".
C7_Witness ==
    \E i \in Slots :
        /\ HeaderChecked(i)
        /\ config.auth_type = TxtBearer
        /\ Contains(reqs[i].req.auth_header, Space)
        /\ SchemeOf(reqs[i].req.auth_header) = <<66, 69, 65, 82, 69, 82>>
        /\ Passed(i)

\* What the step of request i that renders with the namespace v, and without
\* the key json, may do: no 400, and a call carries the texts rendered with v.
RendersWithoutJson(i, v) ==
    /\ ~HasKey(v, TxtJson)
    /\ reqs'[i].pc \in {"send", "done"}
    /\ reqs'[i].resp.status # 400
    /\ reqs'[i].pc = "send" =>
           /\ ~HasKey(reqs'[i].template_variables, TxtJson)
           /\ Len(sent'[i]) = 1
           /\ sent'[i][1].room = RenderNodes(templates["room"].nodes, v).out
           /\ CallMessage(sent'[i][1]) = RenderNodes(templates["message"].nodes, v).out

\* C8: after authentication the body is parsed as JSON if and only if the
\* content type is application/json or force_json is set (as configured when
\* the body has been read); a malformed body that is parsed is answered 400
\* "Failed to parse JSON: ..." with nothing rendered and no call; a body that
\* is not parsed gives the namespace no key json and is never answered 400.
C8_JsonAttempt ==
    [][\A i \in Slots :
         /\ (reqs[i].pc = "text" /\ reqs'[i].pc # "text") =>
                IF reqs[i].req.content_type = "application/json" \/ config.force_json
                THEN reqs'[i].pc = "json" /\ sent'[i] = <<>>
                ELSE RendersWithoutJson(i, TemplateVariables(reqs[i].req))
         /\ reqs'[i].pc = "json" => reqs[i].pc \in {"text", "json"}
         /\ (reqs[i].pc = "json" /\ reqs'[i].pc # "json") =>
                IF ~JsonLoads(reqs[i].req.body).ok
                THEN /\ ReturnsWithout(i, 400)
                     /\ reqs'[i].resp.msg = "Failed to parse JSON: "
                     /\ reqs'[i].room = None /\ reqs'[i].message = None
                ELSE reqs'[i].resp.status # 400
         /\ (reqs'[i].resp.status = 400 /\ reqs[i].resp.status # 400) =>
                reqs[i].pc = "json"]_vars

\* A text/plain request with a malformed body was answered 400 (force_json),
\* without a call.
C8_Witness ==
    \E i \in Slots :
        /\ reqs[i].pc = "done"
        /\ reqs[i].resp.status = 400
        /\ reqs[i].req.content_type = "text/plain"
        /\ ~JsonLoads(reqs[i].req.body).ok
        /\ sent[i] = <<>>

\* The value obj.n1.n2... exists: every name is a key of the dict before it.
RECURSIVE Present(_, _)
Present(obj, names) ==
    \/ Len(names) = 0
    \/ /\ obj.t = "dict"
       /\ HasKey(obj.m, names[1])
       /\ Present(GetItem(obj.m, names[1]), Tail(names))

\* The template refers to a variable the namespace v does not hold.
RefersToAbsent(tmpl, v) ==
    \E n \in 1..Len(tmpl.nodes) :
        /\ tmpl.nodes[n].t = "print"
        /\ ~(/\ HasKey(v, tmpl.nodes[n].ref[1])
             /\ Present(GetItem(v, tmpl.nodes[n].ref[1]), Tail(tmpl.nodes[n].ref)))

\* The namespace of a request that has got as far as rendering, under a
\* configuration that has not changed since it arrived.
RenderedWith(i) ==
    IF reqs[i].req.content_type = "application/json" \/ config.force_json
    THEN SetItem(TemplateVariables(reqs[i].req), TxtJson, JsonLoads(reqs[i].req.body).val)
    ELSE TemplateVariables(reqs[i].req)

\* The request of slot i has been through rendering.
Rendered(i) ==
    /\ reqs[i].pc \in {"send", "done"}
    /\ reqs[i].resp.status \notin {400, 401}

\* C9 as stated: whenever the room or the message template refers to a
\* variable that is absent from the namespace of the request, the request is
\* answered 500 "Undefined variables in <room or message> template: ..." and
\* nothing is delivered; with every variable present a call carries the
\* rendered values.
C9_UndefinedFails ==
    \A i \in Slots :
        Rendered(i) =>
            IF \E key \in Keys : RefersToAbsent(templates[key], RenderedWith(i))
            THEN /\ reqs[i].pc = "done"
                 /\ reqs[i].resp.status = 500
                 /\ reqs[i].resp.msg \in {"Undefined variables in room template: ",
                                          "Undefined variables in message template: "}
                 /\ sent[i] = <<>>
            ELSE /\ reqs[i].resp.msg \notin {"Undefined variables in room template: ",
                                             "Undefined variables in message template: "}
                 /\ sent[i] # <<>> =>
                        /\ sent[i][1].room
                               = RenderNodes(templates["room"].nodes, RenderedWith(i)).out
                        /\ CallMessage(sent[i][1])
                               = RenderNodes(templates["message"].nodes, RenderedWith(i)).out

\* C10: when room and message have rendered, an empty message under
\* ignore_empty_messages returns 200 and no call is made; without
\* ignore_empty_messages the empty message is sent like any other.
C10_IgnoreEmpty ==
    [][\A i \in Slots :
         (/\ reqs[i].pc \in {"text", "json"}
          /\ reqs'[i].pc \in {"send", "done"}
          /\ reqs[i].pc = "json" => JsonLoads(reqs[i].req.body).ok
          /\ RenderNodes(templates["room"].nodes, NamespaceOf(i)).ok
          /\ RenderNodes(templates["message"].nodes, NamespaceOf(i)).ok) =>
             IF /\ RenderNodes(templates["message"].nodes, NamespaceOf(i)).out = <<>>
                /\ config.ignore_empty_messages
             THEN /\ reqs'[i].pc = "done"
                  /\ reqs'[i].resp.status = 200
                  /\ sent'[i] = <<>>
             ELSE /\ reqs'[i].pc = "send"
                  /\ Len(sent'[i]) = 1
                  /\ CallMessage(sent'[i][1])
                         = RenderNodes(templates["message"].nodes, NamespaceOf(i)).out]_vars

\* An empty message was sent, ignore_empty_messages not being set.
C10_Witness ==
    \E i \in Slots :
        /\ ~config.ignore_empty_messages
        /\ Rendered(i)
        /\ Len(sent[i]) = 1
        /\ CallMessage(sent[i][1]) = <<>>
        /\ RenderNodes(templates["message"].nodes, RenderedWith(i)).out = <<>>

\* C11: a message is delivered with exactly one call, chosen by the
\* configured message_format: markdown is send_markdown(room, message), html
\* is send_text with no text and the message as html, plaintext is
\* send_text(room, message); room and message are the ones rendered for that
\* request.
C11_Dispatch ==
    [][\A i \in Slots :
         sent'[i] # sent[i] =>
             LET room == RenderNodes(templates["room"].nodes, NamespaceOf(i)).out
                 message == RenderNodes(templates["message"].nodes, NamespaceOf(i)).out
             IN  /\ sent[i] = <<>>
                 /\ Len(sent'[i]) = 1
                 /\ sent'[i][1].room = room
                 /\ config.message_format = "markdown" =>
                        /\ sent'[i][1].fn = "send_markdown"
                        /\ sent'[i][1].text = message /\ sent'[i][1].html = None
                 /\ config.message_format = "html" =>
                        /\ sent'[i][1].fn = "send_text"
                        /\ sent'[i][1].text = None /\ sent'[i][1].html = message
                 /\ config.message_format \notin {"markdown", "html"} =>
                        /\ sent'[i][1].fn = "send_text"
                        /\ sent'[i][1].text = message /\ sent'[i][1].html = None]_vars

\* message_format html, message "<b>{{body}}": the call is send_text with
\* the rendered message as html.
C11_Witness ==
    \E i \in Slots :
        /\ config.message_format = "html"
        /\ config.message = <<60, 98, 62>> \o SrcBody
        /\ Len(sent[i]) = 1
        /\ sent[i][1].fn = "send_text"
        /\ sent[i][1].text = None
        /\ sent[i][1].html = <<60, 98, 62>> \o reqs[i].req.body
        /\ Len(reqs[i].req.body) > 0

\* C12: a request calls the client at most once; the call that raises is
\* answered 500 with a text that names the message and the room, the call
\* that returns is answered 200 with an empty body, and in both cases no
\* further call is made for the request.
C12_OneCall ==
    [][\A i \in Slots :
         /\ Len(sent'[i]) <= 1
         /\ reqs[i].pc \in {"send", "done"} => sent'[i] = sent[i]
         /\ reqs[i].pc = "done" => reqs'[i] = reqs[i]
         /\ (reqs[i].pc = "send" /\ reqs'[i] # reqs[i]) =>
                /\ reqs'[i].pc = "done"
                /\ \/ /\ reqs'[i].resp.status = 200
                      /\ reqs'[i].resp.msg = "" /\ reqs'[i].resp.args = <<>>
                      /\ reqs'[i].resp.err = ""
                   \/ /\ reqs'[i].resp.status = 500
                      /\ reqs'[i].resp.msg
                             = "Failed to send message '{message}' to room {room}: "
                      /\ reqs'[i].resp.args = <<CallMessage(sent[i][1]), sent[i][1].room>>]_vars

\* A send raised: the request is answered 500, after one call.
C12_Witness ==
    \E i \in Slots :
        /\ reqs[i].pc = "done"
        /\ reqs[i].resp.status = 500
        /\ Len(sent[i]) = 1
        /\ reqs[i].resp.args = <<CallMessage(sent[i][1]), sent[i][1].room>>

\* C13: a reload that leaves path and method as they were leaves the
\* registered routes as they were, so that after any number of such reloads
\* exactly one route is registered, the one of the configuration.
C13_SameRouteNoOp ==
    [][/\ (/\ plugin = "running"
           /\ config' # config
           /\ config'.path = config.path
           /\ config'.method = config.method) => routes' = routes
       /\ plugin' = "running" =>
              routes' = <<[method |-> config'.method, path |-> config'.path]>>]_vars

\* The configuration has been reloaded (a broken room source is never the
\* configuration of a start that succeeded) and one route is registered.
C13_Witness ==
    /\ plugin = "running"
    /\ ~Parse(config.room).ok
    /\ Len(routes) = 1
    /\ routes[1] = [method |-> "POST", path |-> "/send"]

\* The number of times the one-character text c occurs in the text s.
RECURSIVE Count(_, _)
Count(s, c) ==
    IF Len(s) = 0 THEN 0 ELSE (IF <<Head(s)>> = c THEN 1 ELSE 0) + Count(Tail(s), c)

\* The invariants of a configuration as C14 states them: a known
\* message_format; no auth_type, or Basic or Bearer (in any letter case) with
\* a token that is not empty and, for Basic, has exactly one ':'.
StatedValid(cfg) ==
    /\ cfg.message_format \in {"markdown", "plaintext", "html"}
    /\ \/ cfg.auth_type = None
       \/ /\ LowerText(cfg.auth_type) \in {LowerText(TxtBasic), LowerText(TxtBearer)}
          /\ cfg.auth_token # None
          /\ cfg.auth_token # <<>>
          /\ LowerText(cfg.auth_type) = LowerText(TxtBasic) => Count(cfg.auth_token, Colon) = 1

\* C14 as stated: the plugin runs, with both templates compiled and the
\* route registered, only under a configuration that satisfies the stated
\* invariants; under any other configuration the start fails and no route
\* is registered.
C14_StartOnlyValid ==
    /\ plugin = "running" =>
           /\ StatedValid(config)
           /\ \A key \in Keys : templates[key] = Template(config[key])
           /\ routes = <<[method |-> config.method, path |-> config.path]>>
    /\ (plugin # "loaded" /\ ~StatedValid(config)) =>
           plugin = "failed" /\ routes = <<>>

\* C15 as stated: a reload recompiles every slot whose source it changes:
\* after it, a slot whose new source compiles holds the compilation of the
\* new source, whatever became of the other slot, and a slot whose new source
\* is broken holds the template it held before.
C15_ReloadRecompiles ==
    [][(plugin = "running" /\ config' # config) =>
           \A key \in Keys :
               config'[key] # config[key] =>
                   IF Parse(config'[key]).ok
                   THEN templates'[key] = Template(config'[key])
                   ELSE templates'[key] = templates[key]]_vars

\* C16: a reload that changes path or method removes the route that was
\* registered and registers the handler at the new method and path, also when
\* the same reload brings a broken template; after any reloads exactly one
\* route is registered, the one of the current configuration.
C16_RouteFollowsConfig ==
    [][/\ (/\ plugin = "running"
           /\ config'.path # config.path \/ config'.method # config.method) =>
              /\ routes' = <<[method |-> config'.method, path |-> config'.path]>>
              /\ \A n \in 1..Len(routes') : routes'[n] # routes[1]
       /\ plugin' = "running" =>
              /\ Len(routes') = 1
              /\ routes'[1].method = config'.method
              /\ routes'[1].path = config'.path]_vars

\* A request that arrived at /hook/{r} is in flight, and the route is now
\* the one of a configuration with another path whose room source is broken.
C16_Witness ==
    \E i \in Slots :
        /\ reqs[i].pc \in {"text", "json", "send"}
        /\ reqs[i].req.match_info # <<>>
        /\ config.path = "/send"
        /\ ~Parse(config.room).ok
        /\ routes = <<[method |-> config.method, path |-> "/send"]>>

\* C17: the room is rendered before the message and the first failure
\* returns: when the room fails the response is the 500 of the room, whether
\* or not the message would fail too; the 500 of the message is returned only
\* when the room rendered; and a call is made only with both rendered.
C17_RoomFirst ==
    [][\A i \in Slots :
         (/\ reqs[i].pc \in {"text", "json"}
          /\ reqs'[i].pc \in {"send", "done"}
          /\ reqs'[i].resp.status # 400) =>
             LET room == RenderNodes(templates["room"].nodes, NamespaceOf(i))
                 message == RenderNodes(templates["message"].nodes, NamespaceOf(i))
             IN  /\ ~room.ok =>
                        /\ ReturnsWithout(i, 500)
                        /\ reqs'[i].resp.msg = "Undefined variables in room template: "
                 /\ reqs'[i].resp.msg = "Undefined variables in message template: " =>
                        /\ room.ok /\ ~message.ok
                        /\ ReturnsWithout(i, 500)
                 /\ (room.ok /\ ~message.ok) =>
                        reqs'[i].resp.msg = "Undefined variables in message template: "
                 /\ sent'[i] # <<>> => room.ok /\ message.ok]_vars

\* Room and message both fail to render: the response is the 500 of the room.
C17_Witness ==
    \E i \in Slots :
        /\ Rendered(i)
        /\ ~RenderNodes(templates["room"].nodes, RenderedWith(i)).ok
        /\ ~RenderNodes(templates["message"].nodes, RenderedWith(i)).ok
        /\ reqs[i].pc = "done"
        /\ reqs[i].resp.status = 500
        /\ reqs[i].resp.msg = "Undefined variables in room template: "
        /\ sent[i] = <<>>

\* C18: whenever a route is registered, the slots room and message both hold
\* a compiled template: a start whose template does not compile registers no
\* route, a reload never empties a slot, requests are handled only with a
\* route registered, and so no request ever finds a slot undefined.
C18_SlotsCompiled ==
    /\ routes # <<>> =>
           \A key \in Keys :
               /\ templates[key].set
               /\ \E src \in ReloadRooms \cup ReloadMessages :
                      Parse(src).ok /\ templates[key] = Template(src)
    /\ plugin = "failed" => routes = <<>>
    /\ \A i \in Slots :
           /\ reqs[i].pc # "idle" => routes # <<>>
           /\ reqs[i].resp.msg # "KeyError"

\* A request has been rendered and sent while the configuration holds a
\* message source that does not compile.
C18_Witness ==
    \E i \in Slots :
        /\ routes # <<>>
        /\ ~Parse(config.message).ok
        /\ templates["message"].set
        /\ reqs[i].pc = "done"
        /\ reqs[i].resp.status = 200
        /\ Len(sent[i]) = 1

\* C19: a step of a request, whatever its outcome, leaves the compiled
\* templates, the registered routes and the configuration as they were, and
\* leaves every other request, its response and its calls as they were.
C19_Frame ==
    [][\A i \in Slots :
         (reqs'[i] # reqs[i] \/ sent'[i] # sent[i]) =>
             /\ templates' = templates
             /\ routes' = routes
             /\ config' = config
             /\ plugin' = plugin
             /\ \A j \in Slots \ {i} : reqs'[j] = reqs[j] /\ sent'[j] = sent[j]]_vars

\* Two requests were handled together, one ended in an error without a call
\* and the other was delivered and answered 200.
C19_Witness ==
    \E i, j \in Slots :
        /\ reqs[i].pc = "done" /\ reqs[i].resp.status \in {400, 401, 500} /\ sent[i] = <<>>
        /\ reqs[j].pc = "done" /\ reqs[j].resp.status = 200 /\ Len(sent[j]) = 1
        /\ \A key \in Keys : templates[key].set

\* Every step request i has taken up to and including this one used the
\* settings of the one configuration cfg: it was authenticated under cfg's
\* auth_type and auth_token, JSON was or is expected by cfg's force_json, and
\* a call made or an empty message dropped in this step follows cfg's
\* templates, ignore_empty_messages and message_format.
ProcessedUnder(i, cfg) ==
    /\ reqs[i].config_auth_type
           = (IF cfg.auth_type = None THEN None ELSE Capitalize(cfg.auth_type))
    /\ AuthOK(cfg, reqs[i].req.auth_header)
    /\ reqs[i].pc = "json" =>
           (reqs[i].req.content_type = "application/json" \/ cfg.force_json)
    /\ reqs'[i].pc = "json" =>
           (reqs[i].req.content_type = "application/json" \/ cfg.force_json)
    /\ (reqs[i].pc = "text" /\ reqs'[i].pc \in {"send", "done"}) =>
           ~(reqs[i].req.content_type = "application/json" \/ cfg.force_json)
    /\ sent'[i] # sent[i] =>
           /\ Parse(cfg.room).ok /\ Parse(cfg.message).ok
           /\ sent'[i][1].room = RenderNodes(Parse(cfg.room).nodes, NamespaceOf(i)).out
           /\ CallMessage(sent'[i][1])
                  = RenderNodes(Parse(cfg.message).nodes, NamespaceOf(i)).out
           /\ (sent'[i][1].fn = "send_markdown") = (cfg.message_format = "markdown")
           /\ (sent'[i][1].html # None) = (cfg.message_format = "html")
           /\ ~(cfg.ignore_empty_messages /\ CallMessage(sent'[i][1]) = <<>>)

\* C20 as stated: however reloads fall between the steps of a request, the
\* request is processed against one configuration: at each of its steps
\* there is a configuration whose settings account for all it has done.
C20_OneGeneration ==
    [][\A i \in Slots :
         (reqs[i].pc \in {"text", "json"} /\ reqs'[i] # reqs[i]) =>
             \E cfg \in SystemConfigs : ProcessedUnder(i, cfg)]_vars

====
